---- MODULE Spec2Model ----
(***************************************************************************)
(* A model of the allow-me authorization engine: the policy builder        *)
(* (src/src/policy/builder.rs), the rule indexes and the decision engine   *)
(* (src/src/policy/mod.rs), the default substituter                        *)
(* (src/src/substituter.rs) and the resource matchers (src/src/matcher.rs).*)
(*                                                                         *)
(* A Rust String is a sequence of one-character strings; a BTreeMap is a   *)
(* function whose DOMAIN is its key set, iterated in the byte-wise         *)
(* lexicographic order of its keys.                                        *)
(***************************************************************************)
EXTENDS Integers, Sequences, FiniteSets, TLC

(***************************************************************************)
(* Strings                                                                 *)
(***************************************************************************)

\* The characters the model's strings are made of, in ascending byte order.
Alphabet ==
    << "/", "a", "b", "c", "d", "e", "f", "g", "h", "i", "j", "k", "l", "m",
       "n", "o", "p", "q", "r", "s", "t", "u", "v", "w", "x", "y", "z",
       "{", "}" >>

\* The rank of a character in byte order.
Ord(c) == CHOOSE i \in 1..Len(Alphabet) : Alphabet[i] = c

\* String's Ord: byte-wise lexicographic comparison, s < t.
RECURSIVE LexLess(_, _)
LexLess(s, t) ==
    IF t = << >> THEN FALSE
    ELSE IF s = << >> THEN TRUE
    ELSE IF Head(s) # Head(t) THEN Ord(Head(s)) < Ord(Head(t))
    ELSE LexLess(Tail(s), Tail(t))

\* str::starts_with
starts_with(input, prefix) ==
    /\ Len(prefix) <= Len(input)
    /\ SubSeq(input, 1, Len(prefix)) = prefix

\* str::find: the 0-based offset of the first occurrence of pat in s, or -1.
find(s, pat) ==
    LET hits == { i \in 0..(Len(s) - Len(pat)) :
                    SubSeq(s, i + 1, i + Len(pat)) = pat }
    IN  IF hits = {} THEN -1
        ELSE CHOOSE i \in hits : \A j \in hits : i <= j

\* str::contains
contains(s, pat) == find(s, pat) >= 0

\* str::replace: every non-overlapping occurrence of pat, found left to
\* right, is replaced by to.
RECURSIVE str_replace(_, _, _)
str_replace(s, pat, to) ==
    LET at == find(s, pat)
    IN  IF at < 0 THEN s
        ELSE SubSeq(s, 1, at) \o to
                 \o str_replace(SubSeq(s, at + Len(pat) + 1, Len(s)), pat, to)

\* The keys of a BTreeMap in iteration order.
RECURSIVE SortedSeq(_)
SortedSeq(keys) ==
    IF keys = {} THEN << >>
    ELSE LET least == CHOOSE k \in keys : \A o \in keys \ {k} : LexLess(k, o)
         IN  << least >> \o SortedSeq(keys \ {least})

BTreeKeys(map) == SortedSeq(DOMAIN map)

\* BTreeMap::new
EmptyMap == << >>

\* Identities::is_empty, Operations::is_empty, Resources::is_empty
is_empty(map) == DOMAIN map = {}

\* The map with key bound to value, the other entries kept.
MapPut(map, key, value) ==
    [k \in (DOMAIN map) \cup {key} |-> IF k = key THEN value ELSE map[k]]

(***************************************************************************)
(* Effects, decisions, prioritized effects                                 *)
(***************************************************************************)

Allow == "Allow"
Deny == "Deny"
Undefined == "Undefined"

Allowed == "Allowed"
Denied == "Denied"

\* impl From<Effect> for Decision
DecisionFrom(effect) ==
    CASE effect = Allow -> Allowed
      [] effect = Deny -> Denied
      [] effect = Undefined -> Denied

\* EffectOrd::new
EffectOrdNew(effect, order) == [order |-> order, effect |-> effect]

\* EffectOrd::merge with the comparison reversed: the later statement wins.
EffectOrdMerge_higher_order_wins(self, item) ==
    IF self.order < item.order THEN item ELSE self

\* EffectOrd::merge without the comparison: the incoming entry replaces the
\* existing one.
EffectOrdMerge_incoming_wins(self, item) == item

\* EffectOrd::merge: the lower the order, the higher the priority.
EffectOrdMerge(self, item) ==
    IF self.order > item.order THEN item ELSE self

(***************************************************************************)
(* Rule index: Resources, Operations, Identities                           *)
(***************************************************************************)

\* Resources::insert that leaves an occupied entry as it is.
ResourcesInsert_keeps_existing(self, resource, effect) ==
    IF resource \notin DOMAIN self
    THEN MapPut(self, resource, effect)
    ELSE self

\* Resources::insert
ResourcesInsert(self, resource, effect) ==
    IF resource \notin DOMAIN self
    THEN MapPut(self, resource, effect)
    ELSE MapPut(self, resource, EffectOrdMerge(self[resource], effect))

RECURSIVE ResourcesMergeFrom(_, _, _)
ResourcesMergeFrom(self, collection, keys) ==
    IF keys = << >> THEN self
    ELSE ResourcesMergeFrom(
             ResourcesInsert(self, Head(keys), collection[Head(keys)]),
             collection, Tail(keys))

\* Resources::merge
ResourcesMerge(self, collection) ==
    ResourcesMergeFrom(self, collection, BTreeKeys(collection))

\* Operations::insert without the test for an empty collection.
OperationsInsert_stores_empty(self, operation, resources) ==
    IF operation \notin DOMAIN self
    THEN MapPut(self, operation, resources)
    ELSE MapPut(self, operation, ResourcesMerge(self[operation], resources))

\* Operations::insert
OperationsInsert(self, operation, resources) ==
    IF is_empty(resources) THEN self
    ELSE IF operation \notin DOMAIN self
    THEN MapPut(self, operation, resources)
    ELSE MapPut(self, operation, ResourcesMerge(self[operation], resources))

RECURSIVE OperationsMergeFrom(_, _, _)
OperationsMergeFrom(self, collection, keys) ==
    IF keys = << >> THEN self
    ELSE OperationsMergeFrom(
             OperationsInsert(self, Head(keys), collection[Head(keys)]),
             collection, Tail(keys))

\* Operations::merge
OperationsMerge(self, collection) ==
    OperationsMergeFrom(self, collection, BTreeKeys(collection))

\* Identities::insert
IdentitiesInsert(self, identity, operations) ==
    IF is_empty(operations) THEN self
    ELSE IF identity \notin DOMAIN self
    THEN MapPut(self, identity, operations)
    ELSE MapPut(self, identity, OperationsMerge(self[identity], operations))

RECURSIVE IdentitiesMergeFrom(_, _, _)
IdentitiesMergeFrom(self, collection, keys) ==
    IF keys = << >> THEN self
    ELSE IdentitiesMergeFrom(
             IdentitiesInsert(self, Head(keys), collection[Head(keys)]),
             collection, Tail(keys))

\* Identities::merge
IdentitiesMerge(self, collection) ==
    IdentitiesMergeFrom(self, collection, BTreeKeys(collection))

(***************************************************************************)
(* Substituter                                                             *)
(***************************************************************************)

ANY_VAR == << "{", "{", "a", "n", "y", "}", "}" >>
IDENTITY_VAR == << "{", "{", "i", "d", "e", "n", "t", "i", "t", "y", "}", "}" >>
OPERATION_VAR ==
    << "{", "{", "o", "p", "e", "r", "a", "t", "i", "o", "n", "}", "}" >>

\* A marker named after the resource: substituter.rs defines no constant for
\* it.
RESOURCE_VAR ==
    << "{", "{", "r", "e", "s", "o", "u", "r", "c", "e", "}", "}" >>

OpenBraces == << "{", "{" >>
CloseBraces == << "}", "}" >>

\* VariableIter::next without the test `start < end`.
VariableIterNext_without_order_test(value, index) ==
    LET rest == SubSeq(value, index + 1, Len(value))
        start == find(rest, OpenBraces)
        end == find(rest, CloseBraces)
    IN  IF start >= 0 /\ end >= 0
        THEN [some |-> TRUE,
              item |-> SubSeq(rest, start + 1, end + 2),
              index |-> index + end + 2]
        ELSE [some |-> FALSE]

\* VariableIter::next at byte offset index of value: the item yielded and the
\* new offset, or none.
VariableIterNext(value, index) ==
    LET rest == SubSeq(value, index + 1, Len(value))
        start == find(rest, OpenBraces)
        end == find(rest, CloseBraces)
    IN  IF start >= 0 /\ end >= 0 /\ start < end
        THEN [some |-> TRUE,
              item |-> SubSeq(rest, start + 1, end + 2),
              index |-> index + end + 2]
        ELSE [some |-> FALSE]

\* The items VariableIter yields from offset index on, in order.
RECURSIVE VariableIterFrom(_, _)
VariableIterFrom(value, index) ==
    LET n == VariableIterNext(value, index)
    IN  IF n.some THEN << n.item >> \o VariableIterFrom(value, n.index)
        ELSE << >>

\* VariableIter::new(value).collect()
VariableIter(value) == VariableIterFrom(value, 0)

\* replace
replace(value, variable, substitution) ==
    str_replace(value, variable, substitution)

\* One iteration of the loop of replace_identity.
ReplaceIdentityStep(result, variable, context) ==
    IF variable = ANY_VAR \/ variable = IDENTITY_VAR
    THEN replace(result, variable, context.identity)
    ELSE result

\* replace_operation without its IDENTITY_VAR arm.
ReplaceOperationStep_without_identity(result, variable, context) ==
    IF variable = ANY_VAR \/ variable = OPERATION_VAR
    THEN replace(result, variable, context.operation)
    ELSE result

\* One iteration of the loop of replace_operation.
ReplaceOperationStep(result, variable, context) ==
    IF variable = ANY_VAR \/ variable = OPERATION_VAR
    THEN replace(result, variable, context.operation)
    ELSE IF variable = IDENTITY_VAR
    THEN replace(result, variable, context.identity)
    ELSE result

\* replace_resource with its ANY_VAR arm only.
ReplaceResourceStep_any_only(result, variable, context) ==
    IF variable = ANY_VAR
    THEN replace(result, variable, context.resource)
    ELSE result

\* replace_resource with one more arm, for RESOURCE_VAR.
ReplaceResourceStep_with_resource_var(result, variable, context) ==
    IF variable = ANY_VAR \/ variable = RESOURCE_VAR
    THEN replace(result, variable, context.resource)
    ELSE IF variable = IDENTITY_VAR
    THEN replace(result, variable, context.identity)
    ELSE IF variable = OPERATION_VAR
    THEN replace(result, variable, context.operation)
    ELSE result

\* One iteration of the loop of replace_resource.
ReplaceResourceStep(result, variable, context) ==
    IF variable = ANY_VAR
    THEN replace(result, variable, context.resource)
    ELSE IF variable = IDENTITY_VAR
    THEN replace(result, variable, context.identity)
    ELSE IF variable = OPERATION_VAR
    THEN replace(result, variable, context.operation)
    ELSE result

\* The loop `for variable in VariableIter::new(value)` of replace_identity
\* (field "identity"), replace_operation ("operation") and replace_resource
\* ("resource").
RECURSIVE ReplaceLoop(_, _, _, _)
ReplaceLoop(result, variables, context, field) ==
    IF variables = << >> THEN result
    ELSE LET variable == Head(variables)
             next == CASE field = "identity" ->
                              ReplaceIdentityStep(result, variable, context)
                       [] field = "operation" ->
                              ReplaceOperationStep(result, variable, context)
                       [] field = "resource" ->
                              ReplaceResourceStep(result, variable, context)
         IN  ReplaceLoop(next, Tail(variables), context, field)

replace_identity(value, context) ==
    ReplaceLoop(value, VariableIter(value), context, "identity")

replace_operation(value, context) ==
    ReplaceLoop(value, VariableIter(value), context, "operation")

replace_resource(value, context) ==
    ReplaceLoop(value, VariableIter(value), context, "resource")

\* The Substituter implementations a Policy is built with: the default one,
\* one whose visit methods return an error for every pattern, and one that
\* resolves identities and operations as the default one does and returns an
\* error for every resource pattern.
DefaultSubstituter == "DefaultSubstituter"
FailingSubstituter == "FailingSubstituter"
ResourceFailingSubstituter == "ResourceFailingSubstituter"

\* Option::None in a field of the PolicyBuilder.
Unset == "Unset"

SubstitutionError == "SubstitutionError"

\* Result::Ok, Result::Err, and the absence of a value.
Ok(value) == [tag |-> "Ok", value |-> value]
Err(error) == [tag |-> "Err", error |-> error]
None == [tag |-> "None"]

IsOk(result) == result.tag = "Ok"
IsErr(result) == result.tag = "Err"

\* The error a substituter returns: it tells the pattern it was given.
SubstituterErr(value) == Err(<< SubstitutionError, value >>)

\* Substituter::visit_identity
visit_identity(substituter, value, context) ==
    IF substituter = FailingSubstituter
    THEN SubstituterErr(value)
    ELSE Ok(replace_identity(value, context))

\* Substituter::visit_operation
visit_operation(substituter, value, context) ==
    IF substituter = FailingSubstituter
    THEN SubstituterErr(value)
    ELSE Ok(replace_operation(value, context))

\* Substituter::visit_resource
visit_resource(substituter, value, context) ==
    IF substituter = DefaultSubstituter
    THEN Ok(replace_resource(value, context))
    ELSE SubstituterErr(value)

(***************************************************************************)
(* Resource matchers                                                       *)
(***************************************************************************)

DefaultResourceMatcher == "Default"
StartsWith == "StartsWith"

\* ResourceMatcher::do_match
do_match(matcher, context, input, policy) ==
    IF matcher = DefaultResourceMatcher
    THEN input = policy
    ELSE starts_with(input, policy)

(***************************************************************************)
(* Request                                                                 *)
(***************************************************************************)

\* Request::new without the check of the operation.
RequestNew_operation_unchecked(identity, operation, resource) ==
    IF identity = << >> THEN Err("BadRequest: Identity must be specified")
    ELSE Ok([identity |-> identity,
             operation |-> operation,
             resource |-> resource])

\* Request::new
RequestNew(identity, operation, resource) ==
    IF identity = << >> THEN Err("BadRequest: Identity must be specified")
    ELSE IF operation = << >>
    THEN Err("BadRequest: Operation must be specified")
    ELSE Ok([identity |-> identity,
             operation |-> operation,
             resource |-> resource])

(***************************************************************************)
(* Policy: the decision engine                                             *)
(***************************************************************************)

\* The result of a phase or of evaluate, with the substituter calls it made.
Outcome(result, visits) == [result |-> result, visits |-> visits]

\* The loop of eval_static_rules made to compare priorities: of the resources
\* that match, the one stored with the lowest order supplies the effect.
StaticResourceScan_lowest_order(policy, request, resources, keys) ==
    LET matching == { k \in DOMAIN resources :
                        do_match(policy.resource_matcher, request,
                                 request.resource, k) }
    IN  IF matching = {} THEN Ok(Undefined)
        ELSE Ok(resources[CHOOSE k \in matching :
                              \A o \in matching :
                                  resources[k].order <= resources[o].order]
                    .effect)

\* The loop over the resources of an operation in eval_static_rules.
RECURSIVE StaticResourceScan(_, _, _, _)
StaticResourceScan(policy, request, resources, keys) ==
    IF keys = << >> THEN Ok(Undefined)
    ELSE IF do_match(policy.resource_matcher, request, request.resource,
                     Head(keys))
    THEN Ok(resources[Head(keys)].effect)
    ELSE StaticResourceScan(policy, request, resources, Tail(keys))

\* Policy::eval_static_rules
eval_static_rules(policy, request) ==
    IF request.identity \in DOMAIN policy.static_rules
    THEN LET operations == policy.static_rules[request.identity]
         IN  IF request.operation \in DOMAIN operations
             THEN LET resources == operations[request.operation]
                  IN  StaticResourceScan(policy, request, resources,
                                         BTreeKeys(resources))
             ELSE Ok(Undefined)
    ELSE Ok(Undefined)

\* The loop over the resources of an operation in eval_variable_rules.
RECURSIVE VariableResourceScan(_, _, _, _, _)
VariableResourceScan(policy, request, resources, keys, visits) ==
    IF keys = << >> THEN Outcome(Ok(Undefined), visits)
    ELSE LET resource ==
                 visit_resource(policy.substituter, Head(keys), request)
             seen == Append(visits, << "visit_resource", Head(keys) >>)
         IN  IF IsErr(resource) THEN Outcome(resource, seen)
             ELSE IF do_match(policy.resource_matcher, request,
                              request.resource, resource.value)
             THEN Outcome(Ok(resources[Head(keys)].effect), seen)
             ELSE VariableResourceScan(policy, request, resources,
                                       Tail(keys), seen)

\* The loop of eval_variable_rules without the `return` in front of its
\* match: a key that resolves and yields Undefined is followed by the next
\* key.
RECURSIVE VariableIdentityScan_tries_next_key(_, _, _, _)
VariableIdentityScan_tries_next_key(policy, request, keys, visits) ==
    IF keys = << >> THEN Outcome(Ok(Undefined), visits)
    ELSE LET operations == policy.variable_rules[Head(keys)]
             identity ==
                 visit_identity(policy.substituter, Head(keys), request)
             seen == Append(visits, << "visit_identity", Head(keys) >>)
             found ==
                 IF request.operation \in DOMAIN operations
                 THEN LET resources == operations[request.operation]
                      IN  VariableResourceScan(policy, request, resources,
                                               BTreeKeys(resources), seen)
                 ELSE Outcome(Ok(Undefined), seen)
         IN  IF IsErr(identity) THEN Outcome(identity, seen)
             ELSE IF identity.value = request.identity
                     /\ found.result # Ok(Undefined)
             THEN found
             ELSE VariableIdentityScan_tries_next_key(
                      policy, request, Tail(keys),
                      IF identity.value = request.identity
                      THEN found.visits ELSE seen)

\* The loop of eval_variable_rules with the operation keys resolved by
\* visit_operation: the first operation key, in key order, whose resolution
\* equals the request's operation is taken.
RECURSIVE VariableIdentityScan_resolves_operation(_, _, _, _)
VariableIdentityScan_resolves_operation(policy, request, keys, visits) ==
    IF keys = << >> THEN Outcome(Ok(Undefined), visits)
    ELSE LET operations == policy.variable_rules[Head(keys)]
             identity ==
                 visit_identity(policy.substituter, Head(keys), request)
             seen == Append(visits, << "visit_identity", Head(keys) >>)
             resolving ==
                 { o \in DOMAIN operations :
                     visit_operation(policy.substituter, o, request)
                         = Ok(request.operation) }
             operation == CHOOSE o \in resolving :
                              \A other \in resolving \ {o} : LexLess(o, other)
         IN  IF IsErr(identity) THEN Outcome(identity, seen)
             ELSE IF identity.value = request.identity
             THEN IF resolving # {}
                  THEN VariableResourceScan(
                           policy, request, operations[operation],
                           BTreeKeys(operations[operation]),
                           Append(seen, << "visit_operation", operation >>))
                  ELSE Outcome(Ok(Undefined), seen)
             ELSE VariableIdentityScan_resolves_operation(
                      policy, request, Tail(keys), seen)

\* The loop over the identities of variable_rules in eval_variable_rules.
RECURSIVE VariableIdentityScan(_, _, _, _)
VariableIdentityScan(policy, request, keys, visits) ==
    IF keys = << >> THEN Outcome(Ok(Undefined), visits)
    ELSE LET operations == policy.variable_rules[Head(keys)]
             identity ==
                 visit_identity(policy.substituter, Head(keys), request)
             seen == Append(visits, << "visit_identity", Head(keys) >>)
         IN  IF IsErr(identity) THEN Outcome(identity, seen)
             ELSE IF identity.value = request.identity
             THEN IF request.operation \in DOMAIN operations
                  THEN LET resources == operations[request.operation]
                       IN  VariableResourceScan(policy, request, resources,
                                                BTreeKeys(resources), seen)
                  ELSE Outcome(Ok(Undefined), seen)
             ELSE VariableIdentityScan(policy, request, Tail(keys), seen)

\* Policy::eval_variable_rules
eval_variable_rules(policy, request) ==
    VariableIdentityScan(policy, request, BTreeKeys(policy.variable_rules),
                         << >>)

\* Policy::evaluate with one of its match arms changed:
\*   "deny_consults_variable"  the static Deny arm runs the variable phase as
\*                             the static Allow arm does;
\*   "static_allow_wins"       the static Allow arm returns Allowed at once;
\*   "allow_falls_to_default"  static Allow with variable Undefined returns
\*                             the default decision;
\*   "undefined_into_decision" both Undefined are converted with
\*                             Decision::from instead of the default;
\*   "effect_returned"         the effect of the variable phase is returned
\*                             unconverted when the static phase is Undefined;
\*   "error_into_default"      an error of the variable phase is answered
\*                             with the default decision.
EvaluateVariant(policy, request, arm) ==
    LET static == eval_static_rules(policy, request)
        variable == eval_variable_rules(policy, request)
        converted == Outcome(Ok(DecisionFrom(variable.result.value)),
                             variable.visits)
    IN  IF IsErr(static) THEN Outcome(static, << >>)
        ELSE IF static.value = Deny /\ arm # "deny_consults_variable"
        THEN Outcome(Ok(Denied), << >>)
        ELSE IF static.value = Allow /\ arm = "static_allow_wins"
        THEN Outcome(Ok(Allowed), << >>)
        ELSE IF IsErr(variable.result)
        THEN IF arm = "error_into_default"
             THEN Outcome(Ok(policy.default_decision), variable.visits)
             ELSE variable
        ELSE IF static.value = Undefined /\ arm = "effect_returned"
        THEN variable
        ELSE IF variable.result.value # Undefined THEN converted
        ELSE IF static.value = Deny THEN Outcome(Ok(Denied), variable.visits)
        ELSE IF static.value = Allow /\ arm # "allow_falls_to_default"
        THEN Outcome(Ok(Allowed), variable.visits)
        ELSE IF arm = "undefined_into_decision" THEN converted
        ELSE Outcome(Ok(policy.default_decision), variable.visits)

evaluate_deny_consults_variable(policy, request) ==
    EvaluateVariant(policy, request, "deny_consults_variable")

evaluate_static_allow_wins(policy, request) ==
    EvaluateVariant(policy, request, "static_allow_wins")

evaluate_allow_falls_to_default(policy, request) ==
    EvaluateVariant(policy, request, "allow_falls_to_default")

evaluate_undefined_into_decision(policy, request) ==
    EvaluateVariant(policy, request, "undefined_into_decision")

evaluate_effect_returned(policy, request) ==
    EvaluateVariant(policy, request, "effect_returned")

evaluate_error_into_default(policy, request) ==
    EvaluateVariant(policy, request, "error_into_default")

\* Policy::evaluate
evaluate(policy, request) ==
    LET static == eval_static_rules(policy, request)
    IN  IF IsErr(static) THEN Outcome(static, << >>)
        ELSE IF static.value = Deny THEN Outcome(Ok(Denied), << >>)
        ELSE LET variable == eval_variable_rules(policy, request)
             IN  IF IsErr(variable.result) THEN variable
                 ELSE IF variable.result.value = Undefined
                 THEN IF static.value = Allow
                      THEN Outcome(Ok(Allowed), variable.visits)
                      ELSE Outcome(Ok(policy.default_decision),
                                   variable.visits)
                 ELSE Outcome(Ok(DecisionFrom(variable.result.value)),
                              variable.visits)

(***************************************************************************)
(* Policy builder                                                          *)
(***************************************************************************)

\* is_variable_rule
is_variable_rule(value) == contains(value, OpenBraces)

\* impl Into<EffectOrd> for &Statement20201030
StatementInto(statement) == EffectOrdNew(statement.effect, statement.order)

\* A pair of rule-index fragments.
Split(static, variable) == [static |-> static, variable |-> variable]

\* The body of the loop of process_resources for one resource.
ProcessResource(statement, resource, acc) ==
    IF is_variable_rule(resource)
    THEN Split(acc.static,
               ResourcesInsert(acc.variable, resource,
                               StatementInto(statement)))
    ELSE Split(ResourcesInsert(acc.static, resource,
                               StatementInto(statement)),
               acc.variable)

RECURSIVE ProcessResourcesFrom(_, _, _)
ProcessResourcesFrom(statement, resources, acc) ==
    IF resources = << >> THEN acc
    ELSE ProcessResourcesFrom(statement, Tail(resources),
                              ProcessResource(statement, Head(resources), acc))

\* process_resources
process_resources(statement) ==
    ProcessResourcesFrom(statement, statement.resources,
                         Split(EmptyMap, EmptyMap))

\* The body of the loop of process_operations for one operation.
ProcessOperation(statement, operation, acc) ==
    LET res == process_resources(statement)
    IN  IF is_variable_rule(operation)
        THEN Split(acc.static,
                   OperationsInsert(acc.variable, operation,
                                    ResourcesMerge(res.static, res.variable)))
        ELSE Split(OperationsInsert(acc.static, operation, res.static),
                   OperationsInsert(acc.variable, operation, res.variable))

RECURSIVE ProcessOperationsFrom(_, _, _)
ProcessOperationsFrom(statement, operations, acc) ==
    IF operations = << >> THEN acc
    ELSE ProcessOperationsFrom(
             statement, Tail(operations),
             ProcessOperation(statement, Head(operations), acc))

\* process_operations
process_operations(statement) ==
    ProcessOperationsFrom(statement, statement.operations,
                          Split(EmptyMap, EmptyMap))

\* The body of the loop of process_identities without the test of the
\* identity: the operations are always divided between the two indexes.
ProcessIdentity_always_divides(statement, identity, acc) ==
    LET ops == process_operations(statement)
    IN  Split(IdentitiesInsert(acc.static, identity, ops.static),
              IdentitiesInsert(acc.variable, identity, ops.variable))

\* The body of the loop of process_identities for one identity.
ProcessIdentity(statement, identity, acc) ==
    LET ops == process_operations(statement)
    IN  IF is_variable_rule(identity)
        THEN Split(acc.static,
                   IdentitiesInsert(acc.variable, identity,
                                    OperationsMerge(ops.static, ops.variable)))
        ELSE Split(IdentitiesInsert(acc.static, identity, ops.static),
                   IdentitiesInsert(acc.variable, identity, ops.variable))

RECURSIVE ProcessIdentitiesFrom(_, _, _)
ProcessIdentitiesFrom(statement, identities, acc) ==
    IF identities = << >> THEN acc
    ELSE ProcessIdentitiesFrom(
             statement, Tail(identities),
             ProcessIdentity(statement, Head(identities), acc))

\* process_identities
process_identities(statement) ==
    ProcessIdentitiesFrom(statement, statement.identities,
                          Split(EmptyMap, EmptyMap))

\* process_statement
process_statement(statement, static, variable) ==
    LET ids == process_identities(statement)
    IN  Split(IdentitiesMerge(static, ids.static),
              IdentitiesMerge(variable, ids.variable))

\* The loop `for statement in definition.statements` of build, run on list
\* from empty indexes.
RECURSIVE ProcessStatementsFrom(_, _)
ProcessStatementsFrom(list, acc) ==
    IF list = << >> THEN acc
    ELSE ProcessStatementsFrom(
             Tail(list), process_statement(Head(list), acc.static, acc.variable))

RulesOf(list) == ProcessStatementsFrom(list, Split(EmptyMap, EmptyMap))

\* build without that loop: each statement keeps the order it was
\* deserialized with.
Enumerate_keeps_deserialized_order(list) == list

\* The loop `for (order, statement) in ...enumerate()` of build.
Enumerate(list) ==
    [i \in 1..Len(list) |-> [list[i] EXCEPT !.order = i - 1]]

(***************************************************************************)
(* Inputs                                                                  *)
(***************************************************************************)

\* The longest statement list a policy definition holds.
MaxStatements == 2

actor_a == << "a" >>
actor_b == << "b" >>
write == << "w" >>
read == << "r" >>
resource_1 == << "x" >>
resource_12 == << "x", "y" >>
empty == << >>
\* A marker no substituter of the model recognizes, and an unclosed one.
CUSTOM_VAR == << "{", "{", "v", "}", "}" >>
UNCLOSED_VAR == << "{", "{", "v" >>

\* The identity, operation and resource lists of the statements: a static
\* rule, a variable resource under a static identity, a variable identity,
\* and a statement that mixes static and variable patterns at every level.
StatementShapes ==
    { [identities |-> << actor_a >>, operations |-> << write >>,
       resources |-> << resource_1 >>],
      [identities |-> << actor_a >>, operations |-> << write >>,
       resources |-> << ANY_VAR >>],
      [identities |-> << ANY_VAR >>, operations |-> << read, write >>,
       resources |-> << resource_1, IDENTITY_VAR >>],
      [identities |-> << actor_a, actor_b, CUSTOM_VAR >>,
       operations |-> << write, OPERATION_VAR >>,
       resources |-> << resource_12, UNCLOSED_VAR >>] }

\* The statements of a policy definition as deserialized: "order" is 0 when
\* the JSON omits it (serde default); the deny statements carry "order": 9.
StatementPool ==
    { [order |-> IF e = Deny THEN 9 ELSE 0, effect |-> e,
       identities |-> sh.identities, operations |-> sh.operations,
       resources |-> sh.resources] : e \in {Allow, Deny}, sh \in StatementShapes }

StatementLists ==
    UNION { [1..n -> StatementPool] : n \in 0..MaxStatements }

\* The arguments of Request::new: every combination of a non-empty identity
\* and operation with a resource that may be empty, a request whose
\* operation is spelled like a marker, and the malformed ones.
RequestIdentities == { actor_a, actor_b }
RequestOperations == { write, read }
RequestResources == { empty, resource_1, resource_12 }

RequestArguments ==
    { [identity |-> i, operation |-> o, resource |-> r] :
          i \in RequestIdentities, o \in RequestOperations,
          r \in RequestResources }
    \cup { [identity |-> actor_a, operation |-> OPERATION_VAR,
            resource |-> resource_12],
           [identity |-> empty, operation |-> write, resource |-> resource_1],
           [identity |-> actor_a, operation |-> empty, resource |-> resource_1],
           [identity |-> empty, operation |-> empty, resource |-> empty] }

\* The policy of examples/vars.rs: every identity may read and write under
\* its own home directory.
home == << "/", "h", "o", "m", "e", "/" >>
slash == << "/" >>
delete == << "d" >>
actor_ab == << "a", "b" >>
file == << "f" >>

HomeStatement ==
    [order |-> 0, effect |-> Allow,
     identities |-> << ANY_VAR >>,
     operations |-> << read, write >>,
     resources |-> << home \o IDENTITY_VAR \o slash >>]

\* The requests made to that policy: four identities, one of them a prefix
\* of another and one spelled like a marker, an operation the statement does
\* not list, and resources inside, at, beside and outside the home
\* directories.
HomeIdentities == { actor_a, actor_b, actor_ab, OPERATION_VAR }
HomeOperations == { read, write, delete }
HomeResources ==
    { home \o i \o slash : i \in HomeIdentities }
    \cup { home \o i \o slash \o file : i \in HomeIdentities }
    \cup { empty, home, home \o actor_a }

HomeRequestArguments ==
    { [identity |-> i, operation |-> o, resource |-> r] :
          i \in HomeIdentities, o \in HomeOperations, r \in HomeResources }

\* The patterns handed to the visit methods directly: concatenations of at
\* most MaxPieces pieces, each a character of text, a marker the default
\* substituter recognizes, a marker it does not, or a lone pair of braces.
MaxPieces == 3

TextPieces == { slash }
MarkerPieces == { ANY_VAR, IDENTITY_VAR, OPERATION_VAR, RESOURCE_VAR,
                  CUSTOM_VAR }
BracePieces == { OpenBraces, CloseBraces }
Pieces == TextPieces \cup MarkerPieces \cup BracePieces

PatternPieces == UNION { [1..n -> Pieces] : n \in 0..MaxPieces }

RECURSIVE Concat(_)
Concat(pieces) ==
    IF pieces = << >> THEN << >> ELSE Head(pieces) \o Concat(Tail(pieces))

\* The requests the visit methods are called with: plain values, and values
\* that hold a marker themselves.
VisitRequestArguments ==
    { [identity |-> actor_a, operation |-> write, resource |-> resource_1],
      [identity |-> actor_b, operation |-> read, resource |-> resource_12],
      [identity |-> OPERATION_VAR, operation |-> write,
       resource |-> resource_1],
      [identity |-> actor_a, operation |-> IDENTITY_VAR,
       resource |-> resource_1],
      [identity |-> actor_a, operation |-> write,
       resource |-> IDENTITY_VAR] }

VisitMethods == { "visit_identity", "visit_operation", "visit_resource" }

\* The policies and requests of concurrent evaluate calls: at most MaxCalls
\* calls are in flight at once.  The statements are those of
\* examples/order.rs and a statement with a variable identity.
MaxCalls == 2
Threads == 1..MaxCalls

OrderStatements ==
    << [order |-> 0, effect |-> Allow, identities |-> << actor_a >>,
        operations |-> << write >>, resources |-> << resource_1 >>],
       [order |-> 0, effect |-> Deny, identities |-> << actor_a >>,
        operations |-> << write >>, resources |-> << ANY_VAR >>] >>

AnyIdentityStatement ==
    [order |-> 0, effect |-> Allow, identities |-> << ANY_VAR >>,
     operations |-> << read, write >>,
     resources |-> << resource_1, IDENTITY_VAR >>]

ConcurrentStatementLists ==
    { << >>, OrderStatements, << AnyIdentityStatement >>,
      << AnyIdentityStatement >> \o OrderStatements }

ConcurrentRequestArguments ==
    { [identity |-> actor_a, operation |-> write, resource |-> resource_1],
      [identity |-> actor_a, operation |-> write, resource |-> resource_12],
      [identity |-> actor_b, operation |-> read, resource |-> resource_1],
      [identity |-> actor_b, operation |-> write, resource |-> actor_b] }

\* Policy definitions with statements that leave a list empty: no resources
\* (the serde default when the JSON omits them), no operations or no
\* identities, next to a static statement and one with a variable identity.
SparseShapes ==
    { [identities |-> << actor_a >>, operations |-> << write >>,
       resources |-> << >>],
      [identities |-> << actor_a >>, operations |-> << >>,
       resources |-> << resource_1 >>],
      [identities |-> << >>, operations |-> << write >>,
       resources |-> << resource_1 >>],
      [identities |-> << ANY_VAR >>, operations |-> << write, OPERATION_VAR >>,
       resources |-> << >>],
      [identities |-> << actor_a >>, operations |-> << write >>,
       resources |-> << resource_1 >>],
      [identities |-> << ANY_VAR >>, operations |-> << read, write >>,
       resources |-> << resource_1, IDENTITY_VAR >>] }

SparseStatementPool ==
    { [order |-> 0, effect |-> e,
       identities |-> sh.identities, operations |-> sh.operations,
       resources |-> sh.resources] : e \in {Allow, Deny}, sh \in SparseShapes }

SparseStatementLists ==
    UNION { [1..n -> SparseStatementPool] : n \in 0..MaxStatements }

\* The strings a VariableIter is created for: every string of at most
\* MaxValueLen characters out of an opening brace, a closing brace and a
\* letter, as in the property test iterator_does_not_crash.
MaxValueLen == 9
IterAlphabet == { "{", "}", "a" }
IterValues == UNION { [1..n -> IterAlphabet] : n \in 0..MaxValueLen }

(***************************************************************************)
(* State                                                                   *)
(***************************************************************************)

VARIABLES
    statements,        \* PolicyDefinition20201030.statements
    default_decision,  \* PolicyBuilder.default_decision, Policy.default_decision
    matcher,           \* PolicyBuilder.matcher, Policy.resource_matcher
    substituter,       \* PolicyBuilder.substituter, Policy.substituter
    pc,                \* "new", "processing" (inside build), "built", or
                       \* "panicked" when build has panicked
    processed,         \* the number of statements build has processed
    static_rules,      \* build's static_rules, then Policy.static_rules
    variable_rules,    \* build's variable_rules, then Policy.variable_rules
    request_args,      \* the arguments of the last Request::new
    request,           \* the result of the last Request::new
    result,            \* the result of Policy.evaluate on that request
    visits,            \* the substituter calls of that Policy.evaluate
    visit_args,        \* the method and pattern of the last direct visit call
    visit_result,      \* the result of that call
    calls,             \* the evaluate call of each thread: its stage, its
                       \* Request and its local values
    iter               \* a VariableIter: its value, its index, the items
                       \* it has yielded and whether next has returned None

vars == << statements, default_decision, matcher, substituter, pc, processed,
           static_rules, variable_rules, request_args, request, result,
           visits, visit_args, visit_result, calls, iter >>

\* The Policy that build returns.
ThePolicy ==
    [default_decision |-> default_decision,
     resource_matcher |-> matcher,
     substituter |-> substituter,
     static_rules |-> static_rules,
     variable_rules |-> variable_rules]

\* A thread that is not inside evaluate.
Idle == [stage |-> "idle"]

\* PolicyBuilder::from_json followed by the with_* calls, for a policy
\* definition out of lists, a matcher out of matchers (Unset when
\* with_matcher is not called) and a substituter out of substituters.
InitWith(lists, decisions, matchers, substituters) ==
    /\ statements \in lists
    /\ default_decision \in decisions
    /\ matcher \in matchers
    /\ substituter \in substituters
    /\ pc = "new"
    /\ processed = 0
    /\ static_rules = EmptyMap
    /\ variable_rules = EmptyMap
    /\ request_args = None
    /\ request = None
    /\ result = None
    /\ visits = << >>
    /\ visit_args = None
    /\ visit_result = None
    /\ calls = [t \in Threads |-> Idle]
    /\ iter = None

\* The builder with both capabilities supplied.
Init ==
    InitWith(StatementLists, {Allowed, Denied},
             {DefaultResourceMatcher, StartsWith},
             {DefaultSubstituter, FailingSubstituter})

\* PolicyBuilder::build up to its second loop: the statements are numbered
\* and the two indexes created.
BuildStart ==
    /\ pc = "new"
    /\ pc' = "processing"
    /\ statements' = Enumerate(statements)
    /\ processed' = 0
    /\ static_rules' = EmptyMap
    /\ variable_rules' = EmptyMap
    /\ UNCHANGED << default_decision, matcher, substituter, request_args,
                    request, result, visits, visit_args, visit_result,
                    calls, iter >>

\* One iteration of `for statement in definition.statements` of build.
BuildProcessStatement ==
    /\ pc = "processing"
    /\ processed < Len(statements)
    /\ LET rules == process_statement(statements[processed + 1],
                                      static_rules, variable_rules)
       IN  /\ static_rules' = rules.static
           /\ variable_rules' = rules.variable
    /\ processed' = processed + 1
    /\ UNCHANGED << statements, default_decision, matcher, substituter, pc,
                    request_args, request, result, visits, visit_args,
                    visit_result, calls, iter >>

\* The end of build: self.matcher.unwrap() and self.substituter.unwrap()
\* panic on None, otherwise the Policy is returned.
BuildFinish ==
    /\ pc = "processing"
    /\ processed = Len(statements)
    /\ pc' = IF matcher = Unset \/ substituter = Unset
             THEN "panicked"
             ELSE "built"
    /\ UNCHANGED << statements, default_decision, matcher, substituter,
                    processed, static_rules, variable_rules, request_args,
                    request, result, visits, visit_args, visit_result,
                    calls, iter >>

\* A call of Request::new with arguments out of arguments.
NewRequestFrom(arguments) ==
    /\ \E args \in arguments :
          /\ request_args' = args
          /\ request' = RequestNew(args.identity, args.operation,
                                   args.resource)
    /\ result' = None
    /\ visits' = << >>
    /\ visit_args' = None
    /\ visit_result' = None
    /\ UNCHANGED << statements, default_decision, matcher, substituter, pc,
                    processed, static_rules, variable_rules, calls, iter >>

\* A call of Request::new for a Policy that has been built.
NewRequest ==
    /\ pc = "built"
    /\ NewRequestFrom(RequestArguments)

\* A call of Policy::evaluate with the Request constructed last.
Evaluate ==
    /\ pc = "built"
    /\ IsOk(request)
    /\ LET outcome == evaluate(ThePolicy, request.value)
       IN  /\ result' = outcome.result
           /\ visits' = outcome.visits
    /\ UNCHANGED << statements, default_decision, matcher, substituter, pc,
                    processed, static_rules, variable_rules, request_args,
                    request, visit_args, visit_result, calls, iter >>

Next ==
    \/ BuildStart
    \/ BuildProcessStatement
    \/ BuildFinish
    \/ NewRequest
    \/ Evaluate

Spec == Init /\ [][Next]_vars

\* The builder with any of its capabilities supplied or left out, and with
\* the substituters that return errors.
InitCapabilities ==
    InitWith(StatementLists, {Allowed, Denied},
             {Unset, DefaultResourceMatcher, StartsWith},
             {Unset, DefaultSubstituter, FailingSubstituter,
              ResourceFailingSubstituter})

SpecCapabilities == InitCapabilities /\ [][Next]_vars

\* The builder of a policy definition whose statements may leave a list
\* empty.
InitSparse ==
    InitWith(SparseStatementLists, {Allowed, Denied},
             {DefaultResourceMatcher}, {DefaultSubstituter})

SpecSparse == InitSparse /\ [][Next]_vars

\* examples/vars.rs: the builder of the home directory policy, and the
\* requests made to it.
InitHome ==
    InitWith({ << HomeStatement >> }, {Denied}, {StartsWith},
             {DefaultSubstituter})

NewHomeRequest ==
    /\ pc = "built"
    /\ NewRequestFrom(HomeRequestArguments)

NextHome ==
    \/ BuildStart
    \/ BuildProcessStatement
    \/ BuildFinish
    \/ NewHomeRequest
    \/ Evaluate

SpecHome == InitHome /\ [][NextHome]_vars

\* The visit methods of the substituter called directly, as the tests of
\* substituter.rs do: a Request is constructed, then one method is applied
\* to one pattern.
InitVisit ==
    InitWith({ << >> }, {Denied}, {DefaultResourceMatcher},
             {DefaultSubstituter})

NewVisitRequest == NewRequestFrom(VisitRequestArguments)

Visit ==
    /\ IsOk(request)
    /\ visit_args = None
    /\ \E method \in VisitMethods, pieces \in PatternPieces :
          LET value == Concat(pieces)
          IN  /\ visit_args' = [method |-> method, pieces |-> pieces,
                                value |-> value]
              /\ visit_result' =
                     CASE method = "visit_identity" ->
                              visit_identity(substituter, value, request.value)
                       [] method = "visit_operation" ->
                              visit_operation(substituter, value, request.value)
                       [] method = "visit_resource" ->
                              visit_resource(substituter, value, request.value)
    /\ UNCHANGED << statements, default_decision, matcher, substituter, pc,
                    processed, static_rules, variable_rules, request_args,
                    request, result, visits, calls, iter >>

NextVisit ==
    \/ NewVisitRequest
    \/ Visit

SpecVisit == InitVisit /\ [][NextVisit]_vars

\* Concurrent calls of Policy::evaluate on one shared &Policy.  Each thread
\* runs evaluate in two steps, the static phase and the variable phase, and
\* keeps the Request and the effect of the static phase in its own locals.
InitConcurrent ==
    InitWith(ConcurrentStatementLists, {Allowed, Denied},
             {DefaultResourceMatcher},
             {DefaultSubstituter, FailingSubstituter})

Returned(call, value) ==
    [stage |-> "returned", request |-> call.request, result |-> value]

\* A thread constructs a Request and enters evaluate.
CallStart(t) ==
    /\ pc = "built"
    /\ calls[t].stage \in {"idle", "returned"}
    /\ \E args \in ConcurrentRequestArguments :
          LET new == RequestNew(args.identity, args.operation, args.resource)
          IN  /\ IsOk(new)
              /\ calls' = [calls EXCEPT
                              ![t] = [stage |-> "static", request |-> new.value]]
    /\ UNCHANGED << statements, default_decision, matcher, substituter, pc,
                    processed, static_rules, variable_rules, request_args,
                    request, result, visits, visit_args, visit_result, iter >>

\* evaluate up to the outer match: eval_static_rules, and the Deny arm.
CallStaticPhase(t) ==
    /\ calls[t].stage = "static"
    /\ LET static == eval_static_rules(ThePolicy, calls[t].request)
       IN  calls' = [calls EXCEPT
                        ![t] = IF IsErr(static)
                               THEN Returned(calls[t], static)
                               ELSE IF static.value = Deny
                               THEN Returned(calls[t], Ok(Denied))
                               ELSE [stage |-> "variable",
                                     request |-> calls[t].request,
                                     static |-> static.value]]
    /\ UNCHANGED << statements, default_decision, matcher, substituter, pc,
                    processed, static_rules, variable_rules, request_args,
                    request, result, visits, visit_args, visit_result, iter >>

\* What the rest of evaluate returns: eval_variable_rules and the inner
\* match, which reads the effect of the static phase from the thread's locals.
CallVariableValue(t) ==
    LET variable == eval_variable_rules(ThePolicy, calls[t].request).result
    IN  IF IsErr(variable) THEN variable
        ELSE IF variable.value = Undefined
        THEN IF calls[t].static = Allow
             THEN Ok(Allowed)
             ELSE Ok(default_decision)
        ELSE Ok(DecisionFrom(variable.value))

\* The variable phase of a call that also keeps its decision in the Policy,
\* as the new default decision.
CallVariablePhase_remembers_decision(t) ==
    /\ calls[t].stage = "variable"
    /\ calls' = [calls EXCEPT ![t] = Returned(calls[t], CallVariableValue(t))]
    /\ default_decision' = IF IsOk(CallVariableValue(t))
                           THEN CallVariableValue(t).value
                           ELSE default_decision
    /\ UNCHANGED << statements, matcher, substituter, pc, processed,
                    static_rules, variable_rules, request_args, request,
                    result, visits, visit_args, visit_result, iter >>

\* The rest of evaluate, up to its return.
CallVariablePhase(t) ==
    /\ calls[t].stage = "variable"
    /\ calls' = [calls EXCEPT ![t] = Returned(calls[t], CallVariableValue(t))]
    /\ UNCHANGED << statements, default_decision, matcher, substituter, pc,
                    processed, static_rules, variable_rules, request_args,
                    request, result, visits, visit_args, visit_result, iter >>

NextConcurrent ==
    \/ BuildStart
    \/ BuildProcessStatement
    \/ BuildFinish
    \/ \E t \in Threads : CallStart(t)
    \/ \E t \in Threads : CallStaticPhase(t)
    \/ \E t \in Threads : CallVariablePhase(t)

SpecConcurrent == InitConcurrent /\ [][NextConcurrent]_vars

\* A VariableIter driven to its end, as `collect` does.
InitIter ==
    InitWith({ << >> }, {Denied}, {DefaultResourceMatcher},
             {DefaultSubstituter})

\* VariableIter::new
IterNew ==
    /\ iter = None
    /\ \E value \in IterValues :
          iter' = [value |-> value, index |-> 0, items |-> << >>,
                   done |-> FALSE]
    /\ UNCHANGED << statements, default_decision, matcher, substituter, pc,
                    processed, static_rules, variable_rules, request_args,
                    request, result, visits, visit_args, visit_result,
                    calls >>

\* VariableIter::next: an item is yielded and the index moved behind it, or
\* None is returned.
IterNext ==
    /\ iter # None
    /\ ~iter.done
    /\ LET n == VariableIterNext(iter.value, iter.index)
       IN  iter' = IF n.some
                   THEN [iter EXCEPT !.index = n.index,
                                     !.items = Append(@, n.item)]
                   ELSE [iter EXCEPT !.done = TRUE]
    /\ UNCHANGED << statements, default_decision, matcher, substituter, pc,
                    processed, static_rules, variable_rules, request_args,
                    request, result, visits, visit_args, visit_result,
                    calls >>

NextIter ==
    \/ IterNew
    \/ IterNext

SpecIter == InitIter /\ [][NextIter]_vars

(***************************************************************************)
(* Vocabulary of the properties                                            *)
(***************************************************************************)

Range(seq) == { seq[i] : i \in 1..Len(seq) }

\* The (identity, operation, resource) triples of a statement.
Cross(statement) ==
    { << i, o, r >> : i \in Range(statement.identities),
                      o \in Range(statement.operations),
                      r \in Range(statement.resources) }

\* The (identity, operation, resource) triples stored in a rule index.
Triples(index) ==
    UNION { UNION { { << i, o, r >> : r \in DOMAIN index[i][o] } :
                    o \in DOMAIN index[i] } : i \in DOMAIN index }

\* The statement declares the triple; the rule index stores it.
Declares(statement, t) ==
    /\ t[1] \in Range(statement.identities)
    /\ t[2] \in Range(statement.operations)
    /\ t[3] \in Range(statement.resources)

Stores(index, t) ==
    /\ t[1] \in DOMAIN index
    /\ t[2] \in DOMAIN index[t[1]]
    /\ t[3] \in DOMAIN index[t[1]][t[2]]

\* An evaluate call has returned for the current request.
Evaluated == pc = "built" /\ result # None

\* The effect of each phase for the current request.
StaticPhase == eval_static_rules(ThePolicy, request.value)
VariablePhase == eval_variable_rules(ThePolicy, request.value).result

\* The stored triple is a static rule that applies to the request: identity
\* and operation are equal to the request's, the resource matches.
StaticRuleApplies(t, req) ==
    /\ t[1] = req.identity
    /\ t[2] = req.operation
    /\ do_match(matcher, req, req.resource, t[3])

\* The stored triple is a variable rule that applies to the request under the
\* default substituter: the identity resolves to the request's, the operation
\* is the request's, the resolved resource matches.
VariableRuleApplies(t, req) ==
    /\ replace_identity(t[1], req) = req.identity
    /\ t[2] = req.operation
    /\ do_match(matcher, req, req.resource, replace_resource(t[3], req))

\* C1. Deny-absoluteness: whenever the static phase yields Deny, evaluate
\* returns Ok(Denied) without a single substituter call, whatever the
\* variable rules, the default decision and the substituter are.
C1_DenyAbsoluteness ==
    (Evaluated /\ StaticPhase = Ok(Deny))
        => (result = Ok(Denied) /\ visits = << >>)

\* A static Deny was returned as Denied although the default decision is
\* Allowed, a variable Allow rule applies to the request, and the
\* substituter fails on every pattern.
C1_Witness ==
    /\ Evaluated
    /\ StaticPhase = Ok(Deny)
    /\ default_decision = Allowed
    /\ substituter = FailingSubstituter
    /\ \E t \in Triples(variable_rules) :
          /\ VariableRuleApplies(t, request.value)
          /\ variable_rules[t[1]][t[2]][t[3]].effect = Allow
    /\ result = Ok(Denied)

\* The statement at position i has a static rule, resp. a variable rule, that
\* applies to the request.
StatementStaticApplies(i, req) ==
    \E t \in Cross(statements[i]) :
        /\ Stores(static_rules, t)
        /\ StaticRuleApplies(t, req)

StatementVariableApplies(i, req) ==
    \E t \in Cross(statements[i]) :
        /\ Stores(variable_rules, t)
        /\ VariableRuleApplies(t, req)

\* C2. First declared rule wins across the two rule sets: when the first
\* statement that applies to the request applies through a static rule and a
\* later statement applies through a variable rule, evaluate returns the
\* decision of the earlier statement.
C2_FirstDeclaredWinsAcrossSets ==
    (Evaluated /\ substituter = DefaultSubstituter)
        => \A i, j \in 1..Len(statements) :
              ( /\ i < j
                /\ StatementStaticApplies(i, request.value)
                /\ StatementVariableApplies(j, request.value)
                /\ \A k \in 1..(i - 1) :
                      /\ ~StatementStaticApplies(k, request.value)
                      /\ ~StatementVariableApplies(k, request.value) )
              => result = Ok(DecisionFrom(statements[i].effect))

C4_StaticAllowStands ==
    (Evaluated /\ StaticPhase = Ok(Allow) /\ VariablePhase = Ok(Undefined))
        => result = Ok(Allowed)

\* With the exact-equality matcher and default Denied, a request equal to a
\* static Allow rule, which no variable rule applies to although there are
\* variable rules, was Allowed.
C4_Witness ==
    /\ Evaluated
    /\ matcher = DefaultResourceMatcher
    /\ substituter = DefaultSubstituter
    /\ default_decision = Denied
    /\ ~is_empty(variable_rules)
    /\ << request.value.identity, request.value.operation,
          request.value.resource >> \in Triples(static_rules)
    /\ StaticPhase = Ok(Allow)
    /\ VariablePhase = Ok(Undefined)
    /\ result = Ok(Allowed)

\* No static and no variable rule of the policy applies to the request.
NoRuleApplies(req) ==
    /\ \A t \in Triples(static_rules) : ~StaticRuleApplies(t, req)
    /\ \A t \in Triples(variable_rules) : ~VariableRuleApplies(t, req)

\* C5. Default fallback: a request that no static and no variable rule
\* applies to (both phases Undefined) gets exactly the default decision.
C5_DefaultFallback ==
    /\ (Evaluated /\ StaticPhase = Ok(Undefined)
                  /\ VariablePhase = Ok(Undefined))
           => result = Ok(default_decision)
    /\ (Evaluated /\ substituter = DefaultSubstituter
                  /\ NoRuleApplies(request.value))
           => result = Ok(default_decision)

\* A policy with static and variable rules, default Allowed, returned Allowed
\* for a request that none of its rules applies to.
C5_Witness ==
    /\ Evaluated
    /\ substituter = DefaultSubstituter
    /\ ~is_empty(static_rules)
    /\ ~is_empty(variable_rules)
    /\ NoRuleApplies(request.value)
    /\ default_decision = Allowed
    /\ result = Ok(Allowed)

\* C6. When the substituter does not fail, evaluate returns a decision, and
\* the decision is Allowed or Denied: Undefined is never the final result.
C6_DecisionIsAllowedOrDenied ==
    /\ (Evaluated /\ substituter = DefaultSubstituter) => IsOk(result)
    /\ (Evaluated /\ IsOk(result)) => result.value \in {Allowed, Denied}

\* Both phases were Undefined and a decision was returned.
C6_Witness ==
    /\ Evaluated
    /\ StaticPhase = Ok(Undefined)
    /\ VariablePhase = Ok(Undefined)
    /\ ~is_empty(variable_rules)
    /\ result \in {Ok(Allowed), Ok(Denied)}

\* The rule stored at a triple of a rule index.
Stored(index, t) == index[t[1]][t[2]][t[3]]

\* The positions of the processed statements that declare the triple.
Contributors(t) == { i \in 1..processed : Declares(statements[i], t) }

\* The rule index holds, at each of its triples, the effect and the position
\* of the first processed statement that declares the triple.
FirstContributorStored(index) ==
    \A t \in Triples(index) :
        /\ Contributors(t) # {}
        /\ LET first == CHOOSE i \in Contributors(t) :
                            \A j \in Contributors(t) : i <= j
           IN  Stored(index, t) =
                   [order |-> first - 1, effect |-> statements[first].effect]

\* The numbered statements, rearranged by the permutation.
Rearranged(perm) == [k \in 1..Len(statements) |-> statements[perm[k]]]

\* C7. Priority law: each triple of each index stores the effect and the
\* priority of the lowest-positioned statement that contributes it, and
\* merging the statements' fragments in any other order gives the same two
\* indexes.
C7_PriorityLaw ==
    /\ pc # "new" => /\ FirstContributorStored(static_rules)
                     /\ FirstContributorStored(variable_rules)
    /\ (pc = "processing" /\ processed = Len(statements))
           => \A perm \in Permutations(1..Len(statements)) :
                  RulesOf(Rearranged(perm))
                      = Split(static_rules, variable_rules)

\* Two statements with different effects contribute one triple of the
\* static index and one of the variable index; each stores the first one's.
C7_Witness ==
    /\ pc = "built"
    /\ Len(statements) = 2
    /\ statements[1].effect # statements[2].effect
    /\ \E t \in Triples(static_rules) :
          /\ Contributors(t) = {1, 2}
          /\ Stored(static_rules, t) =
                 [order |-> 0, effect |-> statements[1].effect]
    /\ \E t \in Triples(variable_rules) :
          /\ Contributors(t) = {1, 2}
          /\ Stored(variable_rules, t) =
                 [order |-> 0, effect |-> statements[1].effect]

\* A pattern is variable when it contains a marker: "{{" and, after it,
\* "}}"; otherwise it is static.
IsVariablePattern(pattern) ==
    LET start == find(pattern, OpenBraces)
    IN  /\ start >= 0
        /\ contains(SubSeq(pattern, start + 3, Len(pattern)), CloseBraces)

IsStaticPattern(pattern) == ~IsVariablePattern(pattern)

\* The triples that the statements of the definition declare.
DeclaredTriples ==
    UNION { Cross(statements[i]) : i \in 1..Len(statements) }

AllStatic(t) == \A k \in 1..3 : IsStaticPattern(t[k])

\* C8. Partition: after build, static_rules holds exactly the declared
\* triples whose three components are static, variable_rules exactly the
\* declared triples with a variable component.
C8_Partition ==
    pc = "built"
        => /\ Triples(static_rules) = { t \in DeclaredTriples : AllStatic(t) }
           /\ Triples(variable_rules)
                  = { t \in DeclaredTriples : ~AllStatic(t) }

\* The same partition with the builder's own test, is_variable_rule, in the
\* place of the marker syntax: this one the builder keeps.
PartitionByIsVariableRule ==
    pc = "built"
        => /\ Triples(static_rules)
                  = { t \in DeclaredTriples :
                          \A k \in 1..3 : ~is_variable_rule(t[k]) }
           /\ Triples(variable_rules)
                  = { t \in DeclaredTriples :
                          \E k \in 1..3 : is_variable_rule(t[k]) }

\* The statements with the variable identity patterns taken out.
WithoutVariableIdentities ==
    [i \in 1..Len(statements) |->
        [statements[i] EXCEPT
            !.identities = SelectSeq(statements[i].identities,
                                     IsStaticPattern)]]

\* C9. Variable propagation: every (operation, resource) combination of a
\* statement with a variable identity pattern I is filed under I in
\* variable_rules and none in static_rules; the static index, and so the
\* static phase of every request, is what it would be without the pattern.
C9_VariablePropagation ==
    pc = "built"
        => /\ \A i \in 1..Len(statements) :
                 \A t \in Cross(statements[i]) :
                     IsVariablePattern(t[1])
                         => /\ Stores(variable_rules, t)
                            /\ ~Stores(static_rules, t)
                            /\ t[1] \notin DOMAIN static_rules
           /\ static_rules = RulesOf(WithoutVariableIdentities).static

\* A statement with a variable identity declares a combination whose
\* operation and resource are both static, and a static identity too; the
\* combination is in variable_rules and the static index is not empty.
C9_Witness ==
    /\ pc = "built"
    /\ \E i \in 1..Len(statements) :
          /\ \E t \in Cross(statements[i]) :
                /\ IsVariablePattern(t[1])
                /\ IsStaticPattern(t[2])
                /\ IsStaticPattern(t[3])
                /\ t \in Triples(variable_rules)
          /\ \E t \in Cross(statements[i]) :
                AllStatic(t) /\ t \in Triples(static_rules)

\* C10. Request::new fails, with a bad-request error, exactly when the
\* identity or the operation is empty; otherwise it returns the request with
\* the three fields as given, whatever the resource; and evaluate only ever
\* runs on a request with a non-empty identity and operation.
C10_RequestNew ==
    /\ request_args # None
           => /\ IsErr(request) <=> (request_args.identity = empty
                                     \/ request_args.operation = empty)
              /\ IsErr(request)
                     => request.error \in
                            { "BadRequest: Identity must be specified",
                              "BadRequest: Operation must be specified" }
              /\ IsOk(request) => request.value = request_args
    /\ result # None
           => /\ IsOk(request)
              /\ request.value.identity # empty
              /\ request.value.operation # empty

\* A request with an empty resource was constructed and evaluated.
C10_Witness ==
    /\ IsOk(request)
    /\ request_args.resource = empty
    /\ request_args.identity # empty
    /\ request_args.operation # empty
    /\ result # None

\* Request::new refused an empty operation with a non-empty identity.
C10_WitnessRejected ==
    /\ request_args # None
    /\ request_args.identity # empty
    /\ request_args.operation = empty
    /\ IsErr(request)

\* The result of the substituter call that visits records as call.
VisitCall(call) ==
    IF call[1] = "visit_identity"
    THEN visit_identity(substituter, call[2], request.value)
    ELSE visit_resource(substituter, call[2], request.value)

\* C11: evaluate returns an error exactly when a substituter call of its
\* variable phase returned one: that call is the last one evaluate makes,
\* every call before it succeeded, and the error evaluate returns is the
\* error of that call.
C11_SubstitutionFailure ==
    Evaluated =>
        LET n == Len(visits)
        IN  /\ \A k \in 1..(n - 1) : IsOk(VisitCall(visits[k]))
            /\ IsErr(result) <=> (n > 0 /\ IsErr(VisitCall(visits[n])))
            /\ IsErr(result) => result = VisitCall(visits[n])

\* An identity pattern resolved, then the first of several resource patterns
\* under it failed and evaluate returned the error.
C11_Witness ==
    /\ Evaluated
    /\ substituter = ResourceFailingSubstituter
    /\ IsErr(result)
    /\ Len(visits) >= 2
    /\ LET identity == visits[Len(visits) - 1][2]
           resources == variable_rules[identity][request.value.operation]
       IN  /\ visits[Len(visits)][1] = "visit_resource"
           /\ Cardinality(DOMAIN resources) >= 2
           /\ result.error[2] = visits[Len(visits)][2]

\* build has come to its end, by returning or by panicking.
BuildEnded == pc \in {"built", "panicked"}

\* C12: build never ends in a panic: with a matcher or a substituter missing
\* it returns an error value to its caller.
C12_BuildNeverPanics ==
    pc # "panicked"

\* C13: build on a builder made by from_json alone, with no matcher and no
\* substituter supplied, succeeds and returns a Policy.
C13_DefaultCapabilities ==
    (BuildEnded /\ matcher = Unset /\ substituter = Unset) => pc = "built"

\* The fields of the Policy.
PolicyFields ==
    << default_decision, matcher, substituter, static_rules, variable_rules >>

\* C15: no step of an evaluate call changes the Policy, whether the call
\* returns a decision or an error, and a call that has returned, whatever
\* steps of other calls ran before and between its own, has returned what
\* evaluate returns for its Request when run alone.
C15_EvaluateIsReadOnly ==
    /\ [][pc = "built" => UNCHANGED PolicyFields]_vars
    /\ [](\A t \in Threads :
             calls[t].stage = "returned" =>
                 calls[t].result = evaluate(ThePolicy, calls[t].request).result)

\* One call has returned an error while another call, for a different
\* Request, is between its two phases.
C15_Witness ==
    \E t, u \in Threads :
        /\ calls[t].stage = "returned"
        /\ IsErr(calls[t].result)
        /\ calls[u].stage = "variable"
        /\ calls[u].request # calls[t].request

\* text begins with prefix.
HasPrefix(text, prefix) ==
    /\ Len(text) >= Len(prefix)
    /\ SubSeq(text, 1, Len(prefix)) = prefix

\* C16: under the policy of examples/vars.rs a request is Allowed when its
\* operation is read or write and its resource starts with the home directory
\* of its own identity, and Denied otherwise.
C16_HomeDirectories ==
    Evaluated =>
        LET r == request.value
            own == home \o r.identity \o slash
        IN  result = IF /\ r.operation \in { read, write }
                        /\ HasPrefix(r.resource, own)
                     THEN Ok(Allowed)
                     ELSE Ok(Denied)

\* An identity writes a file in its own home directory and is Allowed, though
\* the directory of another identity is a prefix of a sibling of it.
C16_Witness ==
    /\ Evaluated
    /\ statements = Enumerate(<< HomeStatement >>)
    /\ request.value = [identity |-> actor_ab, operation |-> write,
                        resource |-> home \o actor_ab \o slash \o file]
    /\ result = Ok(Allowed)

\* Every prioritized effect stored in the index carries the position of a
\* statement that build has processed, and that statement declares the
\* triple with this effect.
CarriesStatementPosition(index) ==
    \A t \in Triples(index) :
        LET stored == index[t[1]][t[2]][t[3]]
        IN  /\ stored.order \in 0..(processed - 1)
            /\ Declares(statements[stored.order + 1], t)
            /\ stored.effect = statements[stored.order + 1].effect

\* C17: from the start of build on, every statement's priority is its
\* zero-based position in the statement list, whatever "order" it was
\* deserialized with; no two statements share a priority; and every stored
\* prioritized effect carries the position and the effect of the statement
\* it came from.
C17_PositionalPriority ==
    pc # "new" =>
        /\ \A i \in 1..Len(statements) : statements[i].order = i - 1
        /\ \A i, j \in 1..Len(statements) :
               i # j => statements[i].order # statements[j].order
        /\ CarriesStatementPosition(static_rules)
        /\ CarriesStatementPosition(variable_rules)

\* The second statement is a deny statement, deserialized with "order": 9;
\* a static and a variable rule that only it declares are stored with
\* priority 1.
C17_Witness ==
    /\ pc = "built"
    /\ Len(statements) = 2
    /\ statements[2].effect = Deny
    /\ \E t \in Triples(static_rules) :
          /\ ~Declares(statements[1], t)
          /\ static_rules[t[1]][t[2]][t[3]] = [order |-> 1, effect |-> Deny]
    /\ \E t \in Triples(variable_rules) :
          /\ ~Declares(statements[1], t)
          /\ variable_rules[t[1]][t[2]][t[3]] = [order |-> 1, effect |-> Deny]

\* C18: the builder's classifier calls a pattern variable exactly when the
\* pattern contains "{{" and a later "}}"; every other pattern of a
\* statement, one with "{{" and no closing "}}" too, is classified static,
\* and a triple of three such patterns is filed in static_rules.
C18_Classifier ==
    \A i \in 1..Len(statements) :
        /\ \A p \in Range(statements[i].identities)
                    \cup Range(statements[i].operations)
                    \cup Range(statements[i].resources) :
               is_variable_rule(p) <=> IsVariablePattern(p)
        /\ (pc = "built" /\ i <= processed)
               => \A t \in Cross(statements[i]) :
                      (\A k \in 1..3 : IsStaticPattern(t[k]))
                          => Stores(static_rules, t)

\* A visit method has been called directly.
Visited == visit_args # None

\* The text holds no brace.
BraceFree(text) == \A k \in 1..Len(text) : text[k] \notin { "{", "}" }

\* The Request's three values hold no brace.
PlainRequest ==
    /\ BraceFree(request.value.identity)
    /\ BraceFree(request.value.operation)
    /\ BraceFree(request.value.resource)

\* The pattern is made of text and of complete markers only.
WellFormed(pieces) ==
    \A k \in 1..Len(pieces) : pieces[k] \in TextPieces \cup MarkerPieces

\* The marker table of the default substituter: what a visit method puts in
\* the place of a piece of the pattern.
MarkerTable(method, piece, req) ==
    CASE method = "visit_identity" ->
             IF piece \in { ANY_VAR, IDENTITY_VAR } THEN req.identity
             ELSE piece
      [] method = "visit_operation" ->
             IF piece \in { ANY_VAR, OPERATION_VAR } THEN req.operation
             ELSE IF piece = IDENTITY_VAR THEN req.identity
             ELSE piece
      [] method = "visit_resource" ->
             IF piece = ANY_VAR THEN req.resource
             ELSE IF piece = IDENTITY_VAR THEN req.identity
             ELSE IF piece = OPERATION_VAR THEN req.operation
             ELSE piece

\* C19: a visit method of the default substituter never returns an error,
\* and on a pattern made of text and complete markers, for a Request whose
\* values hold no brace, it returns the pattern with each marker of its
\* table replaced by the Request's value and every other marker and all
\* text as they were.
C19_MarkerTable ==
    Visited =>
        /\ IsOk(visit_result)
        /\ (PlainRequest /\ WellFormed(visit_args.pieces))
               => visit_result =
                      Ok(Concat([k \in 1..Len(visit_args.pieces) |->
                                    MarkerTable(visit_args.method,
                                                visit_args.pieces[k],
                                                request.value)]))

\* visit_operation has put the identity in the place of {{identity}}, the
\* operation in the place of {{any}}, and kept an unknown marker.
C19_Witness ==
    /\ Visited
    /\ request.value = [identity |-> actor_a, operation |-> write,
                        resource |-> resource_1]
    /\ visit_args.method = "visit_operation"
    /\ visit_args.pieces = << IDENTITY_VAR, CUSTOM_VAR, ANY_VAR >>
    /\ visit_result = Ok(actor_a \o CUSTOM_VAR \o write)

\* C20: visit_resource puts the Request's resource in the place of the
\* marker {{resource}}.
C20_ResourceMarker ==
    (Visited /\ PlainRequest /\ visit_args.method = "visit_resource"
             /\ visit_args.pieces = << RESOURCE_VAR >>)
        => visit_result = Ok(request.value.resource)

\* C20 as it holds: visit_identity replaces {{identity}} by the identity and
\* visit_operation replaces {{operation}} by the operation, but
\* visit_resource knows no marker named after the resource: it returns
\* {{resource}} as it is, and puts the Request's resource in the place of
\* {{any}} only.
C20_NoResourceMarker ==
    (Visited /\ PlainRequest) =>
        /\ (visit_args.method = "visit_identity"
                /\ visit_args.pieces = << IDENTITY_VAR >>)
               => visit_result = Ok(request.value.identity)
        /\ (visit_args.method = "visit_operation"
                /\ visit_args.pieces = << OPERATION_VAR >>)
               => visit_result = Ok(request.value.operation)
        /\ (visit_args.method = "visit_resource"
                /\ \A k \in 1..Len(visit_args.pieces) :
                       visit_args.pieces[k]
                           \in { slash, RESOURCE_VAR, ANY_VAR })
               => visit_result =
                      Ok(Concat([k \in 1..Len(visit_args.pieces) |->
                                    IF visit_args.pieces[k] = ANY_VAR
                                    THEN request.value.resource
                                    ELSE visit_args.pieces[k]]))

\* visit_resource has kept {{resource}} and replaced {{any}}.
C20_Witness ==
    /\ Visited
    /\ request.value = [identity |-> actor_a, operation |-> write,
                        resource |-> resource_1]
    /\ visit_args.method = "visit_resource"
    /\ visit_args.pieces = << slash, RESOURCE_VAR, ANY_VAR >>
    /\ visit_result = Ok(slash \o RESOURCE_VAR \o resource_1)

\* The markers a visit method of the default substituter recognizes.
Recognized(method) ==
    IF method = "visit_identity"
    THEN { ANY_VAR, IDENTITY_VAR }
    ELSE { ANY_VAR, IDENTITY_VAR, OPERATION_VAR }

\* C21: after a visit method of the default substituter no marker that the
\* method recognizes is left in the result, whatever text, further markers
\* or lone braces stand before or after it in the pattern.  (The Request's
\* values hold no brace, so a marker in the result is one of the pattern.)
C21_EveryOccurrenceReplaced ==
    (Visited /\ PlainRequest) =>
        \A marker \in Recognized(visit_args.method) :
            ~contains(visit_result.value, marker)

\* C29: visit_operation and visit_resource return the single-pass
\* substitution of the pattern: each marker of the pattern is replaced by the
\* Request's value for it, and a value copied in is not looked at again,
\* also when it is spelled like a marker.
C29_SinglePass ==
    (Visited /\ visit_args.method \in { "visit_operation", "visit_resource" }
             /\ WellFormed(visit_args.pieces))
        => visit_result =
               Ok(Concat([k \in 1..Len(visit_args.pieces) |->
                             MarkerTable(visit_args.method,
                                         visit_args.pieces[k],
                                         request.value)]))

\* A Policy has been built with the default substituter and a Request
\* constructed for it.
Requested ==
    pc = "built" /\ IsOk(request) /\ substituter = DefaultSubstituter

\* The first key of a non-empty set of keys in BTreeMap order.
LeastKey(keys) ==
    CHOOSE k \in keys : \A other \in keys \ {k} : LexLess(k, other)

\* The identity keys of variable_rules that resolve to the request's
\* identity.
ResolvingKeys(req) ==
    { k \in DOMAIN variable_rules : replace_identity(k, req) = req.identity }

\* The resource patterns of the map that match the request's resource after
\* substitution.
MatchingVariableResources(resources, req) ==
    { r \in DOMAIN resources :
        do_match(matcher, req, req.resource, replace_resource(r, req)) }

\* The identity keys that the variable phase has examined, in order.
ExaminedKeys(calls_made) ==
    SelectSeq(calls_made, LAMBDA call : call[1] = "visit_identity")

\* C22: the variable phase commits to the first identity key, in key order,
\* that resolves to the request's identity: it yields the effect of the first
\* resource pattern, in key order, that matches under that key's entry for
\* the request's operation, and Undefined when the key has no such entry or
\* no pattern matches; it examines the keys up to that one and no later key;
\* when no key resolves it examines all keys and yields Undefined.
C22_CommitsToFirstKey ==
    Requested =>
        LET req == request.value
            outcome == eval_variable_rules(ThePolicy, req)
            resolving == ResolvingKeys(req)
            examined == ExaminedKeys(outcome.visits)
        IN  IF resolving = {}
            THEN /\ outcome.result = Ok(Undefined)
                 /\ Range(examined)
                        = { << "visit_identity", k >> :
                                k \in DOMAIN variable_rules }
            ELSE LET key == LeastKey(resolving)
                     operations == variable_rules[key]
                 IN  /\ examined[Len(examined)] = << "visit_identity", key >>
                     /\ \A n \in 1..(Len(examined) - 1) :
                            LexLess(examined[n][2], key)
                     /\ IF req.operation \notin DOMAIN operations
                        THEN outcome.result = Ok(Undefined)
                        ELSE LET resources == operations[req.operation]
                                 matching ==
                                     MatchingVariableResources(resources, req)
                             IN  outcome.result =
                                     IF matching = {} THEN Ok(Undefined)
                                     ELSE Ok(resources[LeastKey(matching)]
                                                 .effect)

\* Two identity keys resolve to the request's identity; the first has no
\* matching rule, the later one has, and the phase yields Undefined without
\* examining the later key.
C22_Witness ==
    /\ Requested
    /\ Cardinality(ResolvingKeys(request.value)) >= 2
    /\ \E k \in ResolvingKeys(request.value) :
          /\ request.value.operation \in DOMAIN variable_rules[k]
          /\ MatchingVariableResources(
                 variable_rules[k][request.value.operation],
                 request.value) # {}
          /\ << "visit_identity", k >>
                 \notin Range(eval_variable_rules(ThePolicy,
                                                  request.value).visits)
    /\ eval_variable_rules(ThePolicy, request.value).result = Ok(Undefined)

\* C23: when some identity key of variable_rules resolves to the request's
\* identity and holds, under the request's operation, a resource pattern that
\* matches the request's resource, the variable phase does not yield
\* Undefined, whichever other keys resolve to the identity too.
C23_VariablePhaseComplete ==
    Requested =>
        ( (\E k \in ResolvingKeys(request.value) :
              /\ request.value.operation \in DOMAIN variable_rules[k]
              /\ MatchingVariableResources(
                     variable_rules[k][request.value.operation],
                     request.value) # {})
          => eval_variable_rules(ThePolicy, request.value).result
                 # Ok(Undefined) )

C24_WitnessUnresolved ==
    /\ Evaluated
    /\ substituter = DefaultSubstituter
    /\ request.value.operation = read
    /\ \E k \in ResolvingKeys(request.value) :
          /\ k = LeastKey(ResolvingKeys(request.value))
          /\ OPERATION_VAR \in DOMAIN variable_rules[k]
          /\ read \notin DOMAIN variable_rules[k]
          /\ MatchingVariableResources(variable_rules[k][OPERATION_VAR],
                                       request.value) # {}
    /\ VariablePhase = Ok(Undefined)

\* The resource patterns of the map that match the request's resource as
\* they are.
MatchingStaticResources(resources, req) ==
    { r \in DOMAIN resources : do_match(matcher, req, req.resource, r) }

\* C25: the static phase finds the identity and the operation by their exact
\* keys and yields the effect of the first resource pattern, in key order,
\* that the matcher accepts, whatever priorities the matching patterns are
\* stored with; it yields Undefined when a key is missing or no pattern
\* matches.
C25_StaticFirstMatchInKeyOrder ==
    (pc = "built" /\ IsOk(request)) =>
        LET req == request.value
        IN  StaticPhase =
                IF /\ req.identity \in DOMAIN static_rules
                   /\ req.operation \in DOMAIN static_rules[req.identity]
                THEN LET resources ==
                             static_rules[req.identity][req.operation]
                         matching == MatchingStaticResources(resources, req)
                     IN  IF matching = {} THEN Ok(Undefined)
                         ELSE Ok(resources[LeastKey(matching)].effect)
                ELSE Ok(Undefined)

\* Under the prefix matcher two static patterns match; the first in key
\* order was declared by the later statement with the other effect, and it
\* supplies the effect.
C25_Witness ==
    /\ Evaluated
    /\ matcher = StartsWith
    /\ request.value.identity \in DOMAIN static_rules
    /\ request.value.operation \in DOMAIN static_rules[request.value.identity]
    /\ LET resources ==
               static_rules[request.value.identity][request.value.operation]
           matching == MatchingStaticResources(resources, request.value)
       IN  /\ Cardinality(matching) >= 2
           /\ \E r \in matching :
                 /\ resources[r].order < resources[LeastKey(matching)].order
                 /\ resources[r].effect # resources[LeastKey(matching)].effect
           /\ StaticPhase = Ok(resources[LeastKey(matching)].effect)

\* The fragments of the statement at position i: what process_identities
\* returns for it, its entries tagged with the statement's priority.
Fragment(i) == process_identities(statements[i])

\* build has merged the fragments of all statements and is about to return.
AllMerged == pc = "processing" /\ processed = Len(statements)

\* Merging the two collections commutes and repeats without effect, at the
\* resource, the operation and the identity level.
ResourcesMergeLaws(a, b) ==
    /\ ResourcesMerge(a, b) = ResourcesMerge(b, a)
    /\ ResourcesMerge(ResourcesMerge(a, b), b) = ResourcesMerge(a, b)

OperationsMergeLaws(a, b) ==
    /\ OperationsMerge(a, b) = OperationsMerge(b, a)
    /\ OperationsMerge(OperationsMerge(a, b), b) = OperationsMerge(a, b)
    /\ \A o \in DOMAIN a \cap DOMAIN b : ResourcesMergeLaws(a[o], b[o])

IdentitiesMergeLaws(a, b) ==
    /\ IdentitiesMerge(a, b) = IdentitiesMerge(b, a)
    /\ IdentitiesMerge(IdentitiesMerge(a, b), b) = IdentitiesMerge(a, b)
    /\ \A i \in DOMAIN a \cap DOMAIN b : OperationsMergeLaws(a[i], b[i])

\* C26: with the priorities carried by the entries, merging the fragments of
\* two statements gives the same collection in either order, merging a
\* fragment a second time changes nothing, at the identity, operation and
\* resource level, and merging the fragment of a statement into the index
\* that already holds it leaves the index as it is.
C26_MergeLaws ==
    AllMerged =>
        \A i, j \in 1..Len(statements) :
            /\ IdentitiesMergeLaws(Fragment(i).static, Fragment(j).static)
            /\ IdentitiesMergeLaws(Fragment(i).variable, Fragment(j).variable)
            /\ IdentitiesMerge(static_rules, Fragment(i).static)
                   = static_rules
            /\ IdentitiesMerge(variable_rules, Fragment(i).variable)
                   = variable_rules

\* Two statements with different effects declare a common static and a
\* common variable triple, so their fragments collide at the resource level.
C26_Witness ==
    /\ AllMerged
    /\ Len(statements) = 2
    /\ statements[1].effect # statements[2].effect
    /\ \E t \in Triples(Fragment(1).static) : Stores(Fragment(2).static, t)
    /\ \E t \in Triples(Fragment(1).variable) : Stores(Fragment(2).variable, t)

\* Every triple of the index old is in the index new with the same stored
\* effect and priority.
Preserved(old, new) ==
    \A t \in Triples(old) : Stores(new, t) /\ Stored(new, t) = Stored(old, t)

\* C27: a step of build keeps every triple that either index holds, with its
\* stored effect and priority, and once build has returned no step changes
\* an index.
C27_AppendOnly ==
    [][ /\ pc = "processing"
            => /\ Preserved(static_rules, static_rules')
               /\ Preserved(variable_rules, variable_rules')
        /\ pc = "built" => UNCHANGED << static_rules, variable_rules >>
      ]_vars

\* The second statement has just been merged; it declares, with the other
\* effect, every triple that the first statement had stored, and both
\* indexes still hold the first statement's entries.
C27_Witness ==
    /\ pc = "processing"
    /\ processed = 2
    /\ statements[1].effect # statements[2].effect
    /\ Triples(static_rules) # {}
    /\ Triples(variable_rules) # {}
    /\ \A t \in Triples(static_rules) \cup Triples(variable_rules) :
          Contributors(t) = {1, 2}
    /\ \A t \in Triples(static_rules) :
          Stored(static_rules, t).effect = statements[1].effect

\* The index holds no identity with an empty operation map and no operation
\* with an empty resource map.
NoEmptySubMap(index) ==
    \A i \in DOMAIN index :
        /\ ~is_empty(index[i])
        /\ \A o \in DOMAIN index[i] : ~is_empty(index[i][o])

\* The statement leaves one of its three lists empty.
HasEmptyList(statement) ==
    \/ statement.identities = << >>
    \/ statement.operations = << >>
    \/ statement.resources = << >>

\* The statements that build has processed, without those that leave a list
\* empty.
ProcessedWithLists ==
    SelectSeq(SubSeq(statements, 1, processed),
              LAMBDA statement : ~HasEmptyList(statement))

\* C28: during and after build neither index holds an empty sub-map, and the
\* two indexes are those of the processed statements without the ones that
\* leave a list empty: such a statement adds nothing, and so changes no
\* decision.
C28_NoEmptySubMap ==
    /\ NoEmptySubMap(static_rules)
    /\ NoEmptySubMap(variable_rules)
    /\ pc # "new" => RulesOf(ProcessedWithLists)
                         = Split(static_rules, variable_rules)

\* A deny statement without resources stands before an allow statement for
\* the same identity and operation; the request that the second statement
\* allows has been evaluated and is Allowed.
C28_Witness ==
    /\ Evaluated
    /\ Len(statements) = 2
    /\ statements[1].effect = Deny
    /\ statements[1].resources = << >>
    /\ statements[1].identities = << actor_a >>
    /\ statements[2].effect = Allow
    /\ Declares(statements[2], << request.value.identity,
                                  request.value.operation,
                                  request.value.resource >>)
    /\ default_decision = Denied
    /\ result = Ok(Allowed)

\* The offset in the iterator's value at which its k-th item ends, and the
\* offset at which it begins, when the items lie one after the other with
\* the gaps that the index has skipped.
RECURSIVE ItemEnd(_)
ItemEnd(k) ==
    IF k = 0 THEN 0
    ELSE LET n == VariableIterNext(iter.value, ItemEnd(k - 1))
         IN  n.index

ItemStart(k) == ItemEnd(k) - Len(iter.items[k])

\* text ends with suffix.
HasSuffix(text, suffix) ==
    /\ Len(text) >= Len(suffix)
    /\ SubSeq(text, Len(text) - Len(suffix) + 1, Len(text)) = suffix

\* C30: the index of a VariableIter never leaves its value; every item
\* yielded is the part of the value between two offsets, begins with {{ and
\* ends with }}; the items lie in the value from left to right without
\* overlap; and every call of next either returns None or moves the index
\* forward, so that the iteration ends.
C30_IteratorSpans ==
    /\ [](iter # None =>
             /\ iter.index \in 0..Len(iter.value)
             /\ \A k \in 1..Len(iter.items) :
                    /\ 0 <= ItemStart(k)
                    /\ ItemStart(k) < ItemEnd(k)
                    /\ ItemEnd(k) <= iter.index
                    /\ iter.items[k]
                           = SubSeq(iter.value, ItemStart(k) + 1, ItemEnd(k))
                    /\ HasPrefix(iter.items[k], OpenBraces)
                    /\ HasSuffix(iter.items[k], CloseBraces)
                    /\ k > 1 => ItemEnd(k - 1) <= ItemStart(k))
    /\ [][(iter # None /\ iter' # iter)
              => (iter'.done \/ iter'.index > iter.index)]_vars

\* The iterator has come to its end after yielding two items that do not
\* touch: it has skipped the text between them.
C30_Witness ==
    /\ iter # None
    /\ iter.done
    /\ Len(iter.items) = 2
    /\ ItemStart(2) > ItemEnd(1)

====
